---- MODULE Spec2Model ----
(***************************************************************************)
(* A model of the Go bindings of the BTOON serialization format            *)
(* (package btoon, btoon.go): the one-shot functions Encode and Decode     *)
(* with their cgo helpers, and the StreamEncoder / StreamDecoder types.    *)
(* The callers modelled are those of the package's tests and README.       *)
(***************************************************************************)
EXTENDS Integers, Sequences, FiniteSets, TLC

VARIABLES
    enc,        \* the caller's Encode call: its arguments and what it returned
    dec,        \* the caller's Decode call: its arguments and what it returned
    sEnc,       \* the StreamEncoder instance (its fields)
    encLog,     \* the calls made on the StreamEncoder so far, with results
    sDec,       \* the StreamDecoder instance (its fields), or NoDecoder
    decData,    \* the bytes the StreamDecoder was opened on, and their origin
    decLog      \* the calls made on the StreamDecoder so far, with results

vars == <<enc, dec, sEnc, encLog, sDec, decData, decLog>>

-----------------------------------------------------------------------------
(* Bounds of the model *)

\* the number of calls made on one StreamEncoder
MaxEncCalls == 4
\* the number of calls made on one StreamDecoder
MaxDecCalls == 4

-----------------------------------------------------------------------------
(* Go values: interface{} holding nil, bool, int, float64, string, []byte,  *)
(* []interface{} or map[string]interface{}.  A value is <<kind, payload>>.  *)
(* Strings and byte slices are sequences of bytes, a float is its eight     *)
(* IEEE-754 bytes (least significant first), a map is a function from key   *)
(* strings to values (a Go map has no order).                               *)

Nil == <<"nil", <<>>>>
VBool(b) == <<"bool", b>>
VInt(i) == <<"int", i>>
VFloat(bits) == <<"float", bits>>
VString(s) == <<"string", s>>
VBytes(b) == <<"bytes", b>>
VArray(s) == <<"array", s>>
VMap(f) == <<"map", f>>

Kind(v) == v[1]
Payload(v) == v[2]

\* "key", "id", "a" as UTF-8
KeyKey == <<107, 101, 121>>
KeyId == <<105, 100>>
StrA == <<97>>
\* 3.14 as binary64, least significant byte first
Float314 == <<31, 133, 235, 81, 184, 30, 9, 64>>

\* the records of the README's tabular example, cut to one column
Records == VArray(<<VMap(KeyId :> VInt(1)), VMap(KeyId :> VInt(2))>>)

\* the values of TestBasicEncoding, with the boundary values of each kind
Values ==
    { Nil, VBool(TRUE), VBool(FALSE), VInt(42), VFloat(Float314),
      VString(StrA), VString(<<>>), VBytes(<<222, 173>>),
      VArray(<<VInt(1), VInt(2)>>), VArray(<<>>),
      VMap(KeyKey :> VString(StrA)), VMap(<<>>), Records }

-----------------------------------------------------------------------------
(* Errors, pointers, options *)

\* the nil error
NoErr == "nil"

\* unsafe.Pointer: NULL (Go nil) or a pointer to a native buffer
NULL == <<>>
Ptr(b) == <<b>>

\* the nil byte slice; len(nil) = 0
NilBytes == <<>>

CompressionNone == 0
CompressionZlib == 1
CompressionLZ4 == 2
CompressionZSTD == 3
CompressionBrotli == 4
CompressionSnappy == 5

SupportedAlgorithms == CompressionNone .. CompressionSnappy
\* CompressionAlgorithm is an int: a caller can pass one outside the list
Algorithms == SupportedAlgorithms \cup {CompressionSnappy + 1}
Levels == {1, 6, 9}

EncodeOptions ==
    [Compress : BOOLEAN, Algorithm : Algorithms, Level : Levels,
     AutoTabular : BOOLEAN]

DecodeOptions == [Decompress : BOOLEAN]

\* opts ...EncodeOptions: the tests and the README pass none or one
EncodeOptArgs == {<<>>} \cup {<<o>> : o \in EncodeOptions}
DecodeOptArgs == {<<>>} \cup {<<o>> : o \in DecodeOptions}

-----------------------------------------------------------------------------
(* The wire format: what a complete valid encoded buffer is.  The bindings  *)
(* hold no encoder of their own, so the layout is the format's: a header    *)
(* (version byte, flags byte), then one type-tag byte and the payload of    *)
(* the variant.  The format reserves one tag byte per variant without       *)
(* naming the numbers; the ones below are this model's.                     *)

FormatVersion == 1
TagNull == 0
TagBool == 1
TagInt == 2
TagFloat == 3
TagString == 4
TagBytes == 5
TagArray == 6
TagMap == 7
\* a byte no variant uses as its tag
TagUnused == 255

\* 7 data bits per byte, high bit = continuation, least significant group first
RECURSIVE Varint(_)
Varint(n) ==
    IF n < 128 THEN <<n>> ELSE <<128 + (n % 128)>> \o Varint(n \div 128)

\* the k low bytes of n >= 0, least significant first
RECURSIVE LEBytes(_, _)
LEBytes(n, k) ==
    IF k = 0 THEN <<>> ELSE <<n % 256>> \o LEBytes(n \div 256, k - 1)

\* 64-bit two's complement, little-endian
Int64LE(i) ==
    IF i >= 0
    THEN LEBytes(i, 8)
    ELSE [j \in 1..8 |-> 255 - LEBytes(-i - 1, 8)[j]]

\* the keys of a map in the order they are written: ascending
RECURSIVE KeyOrder(_)
KeyOrder(keys) ==
    IF keys = {} THEN <<>>
    ELSE LET k == CHOOSE x \in keys :
                      \A y \in keys \ {x} :
                          \/ Len(x) < Len(y)
                          \/ /\ Len(x) = Len(y)
                             /\ \E i \in 1..Len(x) :
                                    /\ x[i] < y[i]
                                    /\ \A j \in 1..(i - 1) : x[j] = y[j]
         IN  <<k>> \o KeyOrder(keys \ {k})

RECURSIVE WireValue(_)
RECURSIVE WireSeq(_)
RECURSIVE WirePairs(_, _)

WireSeq(vs) ==
    IF vs = <<>> THEN <<>> ELSE WireValue(Head(vs)) \o WireSeq(Tail(vs))

WirePairs(f, ks) ==
    IF ks = <<>> THEN <<>>
    ELSE WireValue(VString(Head(ks))) \o WireValue(f[Head(ks)])
             \o WirePairs(f, Tail(ks))

WireValue(v) ==
    CASE Kind(v) = "nil" -> <<TagNull>>
      [] Kind(v) = "bool" -> <<TagBool, IF Payload(v) THEN 1 ELSE 0>>
      [] Kind(v) = "int" -> <<TagInt>> \o Int64LE(Payload(v))
      [] Kind(v) = "float" -> <<TagFloat>> \o Payload(v)
      [] Kind(v) = "string" ->
            <<TagString>> \o Varint(Len(Payload(v))) \o Payload(v)
      [] Kind(v) = "bytes" ->
            <<TagBytes>> \o Varint(Len(Payload(v))) \o Payload(v)
      [] Kind(v) = "array" ->
            <<TagArray>> \o Varint(Len(Payload(v))) \o WireSeq(Payload(v))
      [] Kind(v) = "map" ->
            <<TagMap>> \o Varint(Cardinality(DOMAIN Payload(v)))
                \o WirePairs(Payload(v), KeyOrder(DOMAIN Payload(v)))

\* an uncompressed, row-major EncodedBuffer: flags byte 0
WireBuffer(v) == <<FormatVersion, 0>> \o WireValue(v)

\* where the type tag of the top-level value sits in a buffer
TagOffset == 3

\* one StreamFrame: varint byte length, then the buffer
WireFrame(v) == Varint(Len(WireBuffer(v))) \o WireBuffer(v)

Front(s) == SubSeq(s, 1, Len(s) - 1)

ValidBuffers == {WireBuffer(v) : v \in Values}
TruncatedBuffers == {Front(b) : b \in ValidBuffers}
BadTagBuffers == {[b EXCEPT ![TagOffset] = TagUnused] : b \in ValidBuffers}

\* what a caller hands to Decode
DecodeInputs ==
    {NilBytes} \cup ValidBuffers \cup TruncatedBuffers \cup BadTagBuffers

-----------------------------------------------------------------------------
(* The cgo helpers *)

encodeValue(v) == NULL

decodeData(data) == [val |-> Nil, err |-> NoErr]

dataToBytes(data) == NilBytes

\* bytesToData as it would be once it copies the slice into a native buffer
bytesToData_Copying(data) == Ptr(data)

bytesToData(data) == NULL

compressData(data, algo, level) == NULL

decompressData(data) == NULL

\* the calls of C.free that freeEncodedData(data) makes, by their argument
freeEncodedData(data) == IF data # NULL THEN <<data>> ELSE <<>>

-----------------------------------------------------------------------------
(* Encode and Decode.  Besides what the function returns, a call yields     *)
(* obtained, the native buffers its helpers handed it, in order, and cfree, *)
(* the arguments of the C.free calls made while it returns.  A defer        *)
(* statement evaluates the argument of its call where it stands, and the    *)
(* deferred calls run last registered first.                                *)

EncodeOpt(opts) ==
    IF Len(opts) > 0
    THEN opts[1]
    ELSE [Compress |-> FALSE, Algorithm |-> CompressionNone, Level |-> 6,
          AutoTabular |-> TRUE]

IsBuffer(p) == p # NULL

\* Encode without its two nil checks
Encode_Unchecked(v, opts) ==
    LET opt == EncodeOpt(opts)
        data == encodeValue(v)
    IN  IF opt.Compress
        THEN LET cdata == compressData(data, opt.Algorithm, opt.Level)
             IN  [bytes |-> dataToBytes(cdata), err |-> NoErr,
                  obtained |-> SelectSeq(<<data, cdata>>, IsBuffer),
                  cfree |-> freeEncodedData(cdata) \o freeEncodedData(data)]
        ELSE [bytes |-> dataToBytes(data), err |-> NoErr,
              obtained |-> SelectSeq(<<data>>, IsBuffer),
              cfree |-> freeEncodedData(data)]

\* Encode with the free of the encoded buffer deferred ahead of the nil
\* check, as a direct defer C.free(data)
Encode_FreeBeforeCheck(v, opts) ==
    LET opt == EncodeOpt(opts)
        data == encodeValue(v)
    IN  IF data = NULL
        THEN [bytes |-> NilBytes, err |-> "failed to encode value",
              obtained |-> <<>>, cfree |-> <<data>>]
        ELSE IF opt.Compress
        THEN LET cdata == compressData(data, opt.Algorithm, opt.Level)
             IN  IF cdata = NULL
                 THEN [bytes |-> NilBytes, err |-> "compression failed",
                       obtained |-> <<data>>, cfree |-> <<data>>]
                 ELSE [bytes |-> dataToBytes(cdata), err |-> NoErr,
                       obtained |-> <<data, cdata>>,
                       cfree |-> freeEncodedData(cdata) \o <<data>>]
        ELSE [bytes |-> dataToBytes(data), err |-> NoErr,
              obtained |-> <<data>>, cfree |-> <<data>>]

Encode(v, opts) ==
    LET opt == EncodeOpt(opts)
        data == encodeValue(v)
    IN  IF data = NULL
        THEN [bytes |-> NilBytes, err |-> "failed to encode value",
              obtained |-> <<>>, cfree |-> <<>>]
        ELSE IF opt.Compress
        THEN LET cdata == compressData(data, opt.Algorithm, opt.Level)
             IN  IF cdata = NULL
                 THEN [bytes |-> NilBytes, err |-> "compression failed",
                       obtained |-> <<data>>,
                       cfree |-> freeEncodedData(data)]
                 ELSE [bytes |-> dataToBytes(cdata), err |-> NoErr,
                       obtained |-> <<data, cdata>>,
                       cfree |-> freeEncodedData(cdata)
                                     \o freeEncodedData(data)]
        ELSE [bytes |-> dataToBytes(data), err |-> NoErr,
              obtained |-> <<data>>, cfree |-> freeEncodedData(data)]

DecodeOpt(opts) ==
    IF Len(opts) > 0 THEN opts[1] ELSE [Decompress |-> FALSE]

Decode(data, opts) ==
    IF Len(data) = 0
    THEN [val |-> Nil, err |-> "empty data",
          obtained |-> <<>>, cfree |-> <<>>]
    ELSE LET opt == DecodeOpt(opts)
             cdata == bytesToData(data)
         IN  IF cdata = NULL
             THEN [val |-> Nil, err |-> "failed to create data structure",
                   obtained |-> <<>>, cfree |-> <<>>]
             ELSE IF opt.Decompress
             THEN LET ddata == decompressData(cdata)
                  IN  IF ddata = NULL
                      THEN [val |-> Nil, err |-> "decompression failed",
                            obtained |-> <<cdata>>,
                            cfree |-> freeEncodedData(cdata)]
                      ELSE [val |-> decodeData(ddata).val,
                            err |-> decodeData(ddata).err,
                            obtained |-> <<cdata, ddata>>,
                            cfree |-> freeEncodedData(ddata)
                                          \o freeEncodedData(cdata)]
             ELSE [val |-> decodeData(cdata).val,
                   err |-> decodeData(cdata).err,
                   obtained |-> <<cdata>>,
                   cfree |-> freeEncodedData(cdata)]

-----------------------------------------------------------------------------
(* StreamEncoder and StreamDecoder *)

\* the objects TestStreaming and the README put on a stream, and an int
StreamValues == {VMap(KeyId :> VInt(1)), VMap(KeyId :> VInt(2)), VInt(42)}

NewStreamEncoder == [encoder |-> NULL]

StreamEncoderEncode(s, v) == [s |-> s, err |-> NoErr]

StreamEncoderFlush(s) == [s |-> s, bytes |-> NilBytes, err |-> NoErr]

StreamEncoderClose(s) == [s |-> s, err |-> NoErr]

NewStreamDecoder(data) == [decoder |-> NULL]

StreamDecoderDecode(s) == [s |-> s, val |-> Nil, err |-> NoErr]

StreamDecoderClose(s) == [s |-> s, err |-> NoErr]

\* byte streams a caller opens a StreamDecoder on: no frame, whole frames,
\* and a last frame cut short
CallerStreams ==
    {NilBytes}
        \cup {WireFrame(v) : v \in StreamValues}
        \cup {Front(WireFrame(v)) : v \in StreamValues}
        \cup {WireFrame(v) \o WireFrame(VInt(42)) : v \in StreamValues}
        \cup {WireFrame(v) \o Front(WireFrame(VInt(42))) : v \in StreamValues}

-----------------------------------------------------------------------------
(* The state machine *)

NoEncode == [called |-> FALSE, v |-> Nil, opts |-> <<>>,
             bytes |-> NilBytes, err |-> NoErr,
             obtained |-> <<>>, cfree |-> <<>>]
NoDecode == [called |-> FALSE, src |-> "none", data |-> NilBytes,
             opts |-> <<>>, val |-> Nil, err |-> NoErr,
             obtained |-> <<>>, cfree |-> <<>>]
NoStream == [src |-> "none", data |-> NilBytes]

Init ==
    /\ enc = NoEncode
    /\ dec = NoDecode
    /\ sEnc = NewStreamEncoder
    /\ encLog = <<>>
    /\ sDec = [decoder |-> NULL]
    /\ decData = NoStream
    /\ decLog = <<>>

streamVars == <<sEnc, encLog, sDec, decData, decLog>>
codecVars == <<enc, dec>>

\* a caller encodes a value; dec is the Decode call made on its result
DoEncode ==
    \E v \in Values, opts \in EncodeOptArgs :
        LET r == Encode(v, opts)
        IN  /\ enc' = [called |-> TRUE, v |-> v, opts |-> opts,
                       bytes |-> r.bytes, err |-> r.err,
                       obtained |-> r.obtained, cfree |-> r.cfree]
            /\ dec' = NoDecode
            /\ UNCHANGED streamVars

\* a caller decodes bytes of its own: no Encode call belongs to this one
DoDecode ==
    \E data \in DecodeInputs, opts \in DecodeOptArgs :
        LET r == Decode(data, opts)
        IN  /\ dec' = [called |-> TRUE, src |-> "caller", data |-> data,
                       opts |-> opts, val |-> r.val, err |-> r.err,
                       obtained |-> r.obtained, cfree |-> r.cfree]
            /\ enc' = NoEncode
            /\ UNCHANGED streamVars

\* a caller decodes what the last Encode returned (the tests' round trip)
DoDecodeEncoded ==
    /\ enc.called
    /\ \E opts \in DecodeOptArgs :
        LET r == Decode(enc.bytes, opts)
        IN  /\ dec' = [called |-> TRUE, src |-> "Encode", data |-> enc.bytes,
                       opts |-> opts, val |-> r.val, err |-> r.err,
                       obtained |-> r.obtained, cfree |-> r.cfree]
            /\ UNCHANGED <<enc, streamVars>>

Next == DoEncode \/ DoDecode \/ DoDecodeEncoded

Spec == Init /\ [][Next]_vars

\* the encoder is used until a decoder is opened on what it flushed
EncoderInUse == decData.src # "Flush" /\ Len(encLog) < MaxEncCalls

EncCall(op, v, bytes, err) ==
    [op |-> op, v |-> v, bytes |-> bytes, err |-> err]

DoStreamEncode ==
    /\ EncoderInUse
    /\ \E v \in StreamValues :
        LET r == StreamEncoderEncode(sEnc, v)
        IN  /\ sEnc' = r.s
            /\ encLog' = Append(encLog, EncCall("Encode", v, NilBytes, r.err))
    /\ UNCHANGED <<codecVars, sDec, decData, decLog>>

DoStreamFlush ==
    /\ EncoderInUse
    /\ LET r == StreamEncoderFlush(sEnc)
       IN  /\ sEnc' = r.s
           /\ encLog' = Append(encLog, EncCall("Flush", Nil, r.bytes, r.err))
    /\ UNCHANGED <<codecVars, sDec, decData, decLog>>

DoStreamEncoderClose ==
    /\ EncoderInUse
    /\ LET r == StreamEncoderClose(sEnc)
       IN  /\ sEnc' = r.s
           /\ encLog' = Append(encLog, EncCall("Close", Nil, NilBytes, r.err))
    /\ UNCHANGED <<codecVars, sDec, decData, decLog>>

\* a caller opens a decoder on bytes of its own
DoNewStreamDecoder ==
    /\ \E data \in CallerStreams :
        /\ sDec' = NewStreamDecoder(data)
        /\ decData' = [src |-> "caller", data |-> data]
    /\ decLog' = <<>>
    /\ UNCHANGED <<codecVars, sEnc, encLog>>

\* a caller opens a decoder on what the encoder's last call, a Flush, returned
DoNewStreamDecoderOnFlush ==
    /\ encLog # <<>>
    /\ encLog[Len(encLog)].op = "Flush"
    /\ sDec' = NewStreamDecoder(encLog[Len(encLog)].bytes)
    /\ decData' = [src |-> "Flush", data |-> encLog[Len(encLog)].bytes]
    /\ decLog' = <<>>
    /\ UNCHANGED <<codecVars, sEnc, encLog>>

DecCall(op, val, err) == [op |-> op, val |-> val, err |-> err]

DecoderInUse == decData.src # "none" /\ Len(decLog) < MaxDecCalls

DoStreamDecode ==
    /\ DecoderInUse
    /\ LET r == StreamDecoderDecode(sDec)
       IN  /\ sDec' = r.s
           /\ decLog' = Append(decLog, DecCall("Decode", r.val, r.err))
    /\ UNCHANGED <<codecVars, sEnc, encLog, decData>>

DoStreamDecoderClose ==
    /\ DecoderInUse
    /\ LET r == StreamDecoderClose(sDec)
       IN  /\ sDec' = r.s
           /\ decLog' = Append(decLog, DecCall("Close", Nil, r.err))
    /\ UNCHANGED <<codecVars, sEnc, encLog, decData>>

StreamNext ==
    \/ DoStreamEncode
    \/ DoStreamFlush
    \/ DoStreamEncoderClose
    \/ DoNewStreamDecoder
    \/ DoNewStreamDecoderOnFlush
    \/ DoStreamDecode
    \/ DoStreamDecoderClose

StreamSpec == Init /\ [][StreamNext]_vars

TypeOK ==
    /\ enc.v \in Values
    /\ dec.data \in DecodeInputs
    /\ Len(encLog) <= MaxEncCalls
    /\ Len(decLog) <= MaxDecCalls

-----------------------------------------------------------------------------
(* Properties of Encode and Decode *)

\* the round trip of the tests: Decode was called on what enc returned
IsRoundTrip == enc.called /\ dec.called /\ dec.src = "Encode"

CompressRequested == enc.called /\ EncodeOpt(enc.opts).Compress

\* C1: round trip.  For every value v, Encode(v) with default options
\* returns a nil error, and Decode of the returned bytes returns a nil
\* error and a value equal to v.
C1_RoundTrip ==
    /\ (enc.called /\ enc.opts = <<>>) => enc.err = NoErr
    /\ (IsRoundTrip /\ enc.opts = <<>> /\ dec.opts = <<>>) =>
           (dec.err = NoErr /\ dec.val = enc.v)

\* C2: compression round trip.  For every value, every supported algorithm
\* and every level, Encode with Compress set returns a nil error, and
\* Decode of the result with Decompress set returns a nil error and a value
\* equal to the one encoded.
C2_CompressionRoundTrip ==
    (CompressRequested
         /\ EncodeOpt(enc.opts).Algorithm \in SupportedAlgorithms) =>
        /\ enc.err = NoErr
        /\ (IsRoundTrip /\ DecodeOpt(dec.opts).Decompress) =>
               (dec.err = NoErr /\ dec.val = enc.v)

\* C8: Decode never reports a failure as a silent null result.  Every
\* input that is not a complete valid encoded buffer (the empty input, a
\* valid buffer without its last byte, a buffer whose type tag is an unused
\* byte) gets a non-nil error, and (nil, nil) is returned only for the
\* valid encoding of Null.
C8_NoSilentNull ==
    dec.called =>
        /\ dec.data \notin ValidBuffers => dec.err # NoErr
        /\ (dec.val = Nil /\ dec.err = NoErr) => dec.data = WireBuffer(Nil)

\* Decode was handed a valid buffer without its last byte, and reported it
C8_Witness ==
    /\ dec.called
    /\ dec.data \in TruncatedBuffers \ ValidBuffers
    /\ dec.data # NilBytes
    /\ dec.err # NoErr

\* C9: compression never silently falls back to uncompressed output.  With
\* Compress set, Encode returns either a non-nil error and no bytes, or a
\* nil error and bytes that are not the uncompressed encoding of the value;
\* with an algorithm outside the supported set it returns an error.
C9_NoSilentFallback ==
    CompressRequested =>
        /\ \/ enc.err # NoErr /\ enc.bytes = NilBytes
           \/ /\ enc.err = NoErr
              /\ enc.bytes # WireBuffer(enc.v)
              /\ enc.bytes # NilBytes
        /\ EncodeOpt(enc.opts).Algorithm \notin SupportedAlgorithms =>
               enc.err # NoErr

\* Encode was asked to compress with an algorithm it does not know, and
\* returned an error and no bytes
C9_Witness ==
    /\ CompressRequested
    /\ EncodeOpt(enc.opts).Algorithm \notin SupportedAlgorithms
    /\ enc.err # NoErr
    /\ enc.bytes = NilBytes

IsArrayOfMaps(v) ==
    /\ Kind(v) = "array"
    /\ Payload(v) # <<>>
    /\ \A i \in 1..Len(Payload(v)) : Kind(Payload(v)[i]) = "map"

\* no record lacks a key of the column union
NoAbsentKey(v) ==
    \A i, j \in 1..Len(Payload(v)) :
        DOMAIN Payload(Payload(v)[i]) = DOMAIN Payload(Payload(v)[j])

\* C10: tabular equivalence.  For a non-empty array of maps a in which no
\* record lacks a key of the column union, decoding Encode(a) with
\* AutoTabular on and with AutoTabular off gives equal values, both equal
\* to a.
C10_TabularEquivalence ==
    (IsRoundTrip /\ Len(enc.opts) = 1 /\ ~enc.opts[1].Compress
         /\ dec.opts = <<>>
         /\ IsArrayOfMaps(enc.v) /\ NoAbsentKey(enc.v)) =>
        LET other == [enc.opts[1] EXCEPT !.AutoTabular = ~@]
            otherDec == Decode(Encode(enc.v, <<other>>).bytes, <<>>)
        IN  /\ enc.err = NoErr
            /\ dec.err = NoErr
            /\ otherDec.err = NoErr
            /\ dec.val = otherDec.val
            /\ dec.val = enc.v

\* how many of the calls in frees have p as their argument
TimesFreed(p, frees) == Cardinality({i \in 1..Len(frees) : frees[i] = p})

\* the buffers of one call are each freed once, and nothing else is freed
FreedExactlyOnce(call) ==
    /\ \A i \in 1..Len(call.cfree) : call.cfree[i] # NULL
    /\ \A i \in 1..Len(call.obtained) :
           TimesFreed(call.obtained[i], call.cfree) = 1
    /\ Len(call.cfree) = Len(call.obtained)

-----------------------------------------------------------------------------
(* Properties of the StreamEncoder and the StreamDecoder *)

\* the calls i of a log that no Close precedes
Open(log, i) == \A k \in 1..(i - 1) : log[k].op # "Close"
Closed(log) == \E k \in 1..Len(log) : log[k].op = "Close"

\* the encoder's log is Encode(v1) .. Encode(vn), Flush, with n >= 1
EncodedThenFlushed ==
    /\ Len(encLog) >= 2
    /\ encLog[Len(encLog)].op = "Flush"
    /\ \A k \in 1..(Len(encLog) - 1) : encLog[k].op = "Encode"

\* C3: streaming order preservation.  After Encode(v1) .. Encode(vn) and a
\* Flush, a decoder opened on the flushed bytes returns v1 .. vn in order
\* from its first n Decode calls, each with a nil error and a non-nil
\* value, and its (n+1)-th Decode call signals the end of the stream.
C3_StreamOrder ==
    (decData.src = "Flush" /\ EncodedThenFlushed) =>
        LET n == Len(encLog) - 1
        IN  /\ \A k \in 1..Len(encLog) : encLog[k].err = NoErr
            /\ \A i \in 1..Len(decLog) :
                   (Open(decLog, i + 1) /\ i <= n) =>
                       /\ decLog[i].err = NoErr
                       /\ decLog[i].val # Nil
                       /\ decLog[i].val = encLog[i].v
            /\ \A i \in 1..Len(decLog) :
                   (Open(decLog, i + 1) /\ i = n + 1) =>
                       decLog[i].err # NoErr

\* the step is the call op on the encoder
EncStep(op) ==
    /\ Len(encLog') = Len(encLog) + 1
    /\ encLog'[Len(encLog')].op = op

\* the step is the call op on the decoder
DecStep(op) ==
    /\ Len(decLog') = Len(decLog) + 1
    /\ decLog'[Len(decLog')].op = op

\* C4: once Close has been called on a StreamEncoder, every later Encode
\* returns a non-nil error (StreamClosed) and adds nothing to the stream,
\* and the encoder stays closed.
C4_EncodeAfterClose ==
    [][(Closed(encLog) /\ EncStep("Encode")) =>
           /\ encLog'[Len(encLog')].err # NoErr
           /\ sEnc' = sEnc
           /\ Closed(encLog')]_vars

\* C5: Close is idempotent on the encoder and on the decoder: a repeated
\* Close leaves the instance as the first one left it, and after the first
\* Close a Flush on the encoder and a Decode on the decoder return a
\* non-nil error and no result.
C5_CloseIdempotent ==
    [][/\ (Closed(encLog) /\ EncStep("Close")) => sEnc' = sEnc
       /\ (Closed(encLog) /\ EncStep("Flush")) =>
              /\ encLog'[Len(encLog')].err # NoErr
              /\ encLog'[Len(encLog')].bytes = NilBytes
       /\ (Closed(decLog) /\ DecStep("Close")) => sDec' = sDec
       /\ (Closed(decLog) /\ DecStep("Decode")) =>
              /\ decLog'[Len(decLog')].err # NoErr
              /\ decLog'[Len(decLog')].val = Nil]_vars

\* what the Flush calls among the first j calls returned, concatenated
RECURSIVE FlushedUpTo(_)
FlushedUpTo(j) ==
    IF j = 0 THEN <<>>
    ELSE FlushedUpTo(j - 1)
             \o (IF encLog[j].op = "Flush" THEN encLog[j].bytes ELSE <<>>)

\* the frames of the values encoded by the first j calls, in order
RECURSIVE FramesUpTo(_)
FramesUpTo(j) ==
    IF j = 0 THEN <<>>
    ELSE FramesUpTo(j - 1)
             \o (IF encLog[j].op = "Encode" /\ encLog[j].err = NoErr
                 THEN WireFrame(encLog[j].v) ELSE <<>>)

\* C6: Flush returns the accumulated frames.  A Flush after at least one
\* successful Encode returns bytes, each Flush returns only the frames
\* appended since the one before, and the Flush results concatenated are
\* the frames of the values encoded, in order, none repeated or lost.
C6_FlushAccumulates ==
    \A j \in 1..Len(encLog) :
        (encLog[j].op = "Flush" /\ Open(encLog, j)) =>
            /\ encLog[j].err = NoErr
            /\ FlushedUpTo(j) = FramesUpTo(j)
            /\ (FramesUpTo(j) # <<>> /\ FlushedUpTo(j - 1) = <<>>) =>
                   encLog[j].bytes # <<>>

\* the length prefix at the head of b: its value and how many bytes it takes
RECURSIVE ReadVarint(_)
ReadVarint(b) ==
    IF b = <<>> THEN [ok |-> FALSE, n |-> 0, size |-> 0]
    ELSE IF Head(b) < 128 THEN [ok |-> TRUE, n |-> Head(b), size |-> 1]
    ELSE LET r == ReadVarint(Tail(b))
         IN  [ok |-> r.ok, n |-> (Head(b) - 128) + 128 * r.n,
              size |-> r.size + 1]

\* b starts with a whole frame
HasFrame(b) ==
    ReadVarint(b).ok /\ Len(b) >= ReadVarint(b).size + ReadVarint(b).n

\* some bytes remain, but fewer than the frame at the head of b needs
PartialFrame(b) == b # <<>> /\ ~HasFrame(b)

\* what is left of b after k reads, each taking a whole frame if there is one
RECURSIVE Remaining(_, _)
Remaining(b, k) ==
    IF k = 0 THEN b
    ELSE LET r == Remaining(b, k - 1)
         IN  IF HasFrame(r)
             THEN SubSeq(r, ReadVarint(r).size + ReadVarint(r).n + 1, Len(r))
             ELSE r

\* C7: Decode tells the two ways input runs out apart.  With no byte left
\* before a length prefix it signals the clean end of the stream, and does
\* so again on every later call; with some bytes left, but fewer than the
\* frame declares, it signals truncation; in neither case does it return a
\* value.
C7_ExhaustedOrTruncated ==
    decData.src = "caller" =>
        \A i \in 1..Len(decLog) :
            (decLog[i].op = "Decode" /\ Open(decLog, i)) =>
                LET rest == Remaining(decData.data, i - 1)
                IN  (rest = <<>> \/ PartialFrame(rest)) =>
                        /\ decLog[i].err # NoErr
                        /\ decLog[i].val = Nil

====
